---- MODULE Spec2Model ----
(***************************************************************************)
(* remark-scoped-mdx: the two-phase traversal of src/plugin.ts.            *)
(*                                                                         *)
(* The outer `visit(tree, shouldProcessScope(registry), visitor)` finds    *)
(* scope roots; for each of them the visitor of createScopeVisitor runs an *)
(* inner `visit(scopeElement, isNamedMdxJsxFlowElement, ...)` that renames *)
(* matching flow elements in place (applyFlowRename).                      *)
(*                                                                         *)
(* A tree is a set of numbered nodes; node 0 is the root and the numbers   *)
(* of the other nodes follow document order.  Both walks of                *)
(* unist-util-visit are pre-order walks that read `node.children` after    *)
(* the visitor of the node has returned; each is kept as the list of nodes *)
(* still to be visited, head first.                                        *)
(***************************************************************************)
EXTENDS Integers, Sequences, FiniteSets, TLC

\* Number of nodes below the root.
MaxNodes == 4

Nodes == 0 .. MaxNodes
Elements == 1 .. MaxNodes
NoNode == MaxNodes + 1

\* `name: null` of a fragment, and of nodes that carry no name at all.
NoName == "#null"

(***************************************************************************)
(* Prop values (MdxPropValue = unknown): the values a rewrite target can   *)
(* declare for a prop.                                                     *)
(***************************************************************************)
PropValue(t, v) == [type |-> t, value |-> v]
TrueValue == PropValue("boolean", "true")
FalseValue == PropValue("boolean", "false")
NullValue == PropValue("null", "null")
UndefinedValue == PropValue("undefined", "undefined")
StringValue(s) == PropValue("string", s)
NumberValue(s) == PropValue("number", s)
FunctionValue == PropValue("function", "handle")

Prop(n, v) == [name |-> n, value |-> v]

\* MdxRenameTarget: component.name, component.props (optional: hasProps),
\* transformOptions.childrenPolicy ("undefined" when not given).
Target(n, hasProps, props, policy) ==
  [component |-> [name |-> n, hasProps |-> hasProps, props |-> props],
   childrenPolicy |-> policy]

\* MdxTransformRule: `renameFlow` is an optional own property.
\*   declared = Object.hasOwn(rule, 'renameFlow')
\*   defined  = the value of the property is an object (not undefined)
RuleWith(map) == [declared |-> TRUE, defined |-> TRUE, renameFlow |-> map]
RuleUndefined == [declared |-> TRUE, defined |-> FALSE, renameFlow |-> <<>>]
RuleWithout == [declared |-> FALSE, defined |-> FALSE, renameFlow |-> <<>>]

Flow(n) == [type |-> "mdxJsxFlowElement", name |-> n]
Inline(n) == [type |-> "mdxJsxTextElement", name |-> n]
Paragraph == [type |-> "paragraph", name |-> NoName]
Fragment == [type |-> "mdxJsxFlowElement", name |-> NoName]

(***************************************************************************)
(* Registries the transformer is run with, each with the node labels the   *)
(* trees under it are built from.                                          *)
(***************************************************************************)
\* Outer{para->A}, Inner{para->B}: nested scopes, both with a rule for para.
NestedRegistry ==
  ("Outer" :> RuleWith("para" :> Target("A", FALSE, <<>>, "undefined"))) @@
  ("Inner" :> RuleWith("para" :> Target("B", FALSE, <<>>, "undefined")))

\* A target that is an active scope name (para->Inner) and a target that is
\* a source tag of another scope (br->para).
ChainRegistry ==
  ("Outer" :> RuleWith(
     ("para" :> Target("Inner", FALSE, <<>>, "preserve")) @@
     ("br" :> Target("para", TRUE, <<Prop("from", StringValue("Outer"))>>,
                     "undefined")))) @@
  ("Inner" :> RuleWith(
     "para" :> Target("B", TRUE, <<Prop("from", StringValue("Inner"))>>,
                      "clear")))

\* A registry key without `renameFlow` (Plain), also used as a source tag.
PlainRegistry ==
  ("Outer" :> RuleWith(
     ("para" :> Target("A", FALSE, <<>>, "undefined")) @@
     ("Plain" :> Target("A", FALSE, <<>>, "undefined")))) @@
  ("Plain" :> RuleWithout)

\* A scope whose own name is a source tag of its rename map, a scope with an
\* empty rename map.
SelfRegistry ==
  ("Self" :> RuleWith(
     ("Self" :> Target("A", FALSE, <<>>, "undefined")) @@
     ("para" :> Target("A", TRUE, <<>>, "clear")))) @@
  ("Empty" :> RuleWith(<<>>))

\* Scenarios 1 and 2 of the specification: mark->Blank (clear),
\* para->Note[tone=info] (children kept).
PolicyRegistry ==
  "Scope" :> RuleWith(
     ("mark" :> Target("Blank", TRUE, <<>>, "clear")) @@
     ("para" :> Target("Note", TRUE, <<Prop("tone", StringValue("info"))>>,
                       "undefined")))

\* Prop values: presence (true), omitted (undefined), not serializable.
PropsRegistry ==
  "Scope" :> RuleWith(
     ("para" :> Target("Note", TRUE,
                       <<Prop("enabled", TrueValue),
                         Prop("skip", UndefinedValue),
                         Prop("off", FalseValue),
                         Prop("handle", FunctionValue)>>, "clear")) @@
     ("br" :> Target("Blank", TRUE,
                     <<Prop("skip", UndefinedValue),
                       Prop("enabled", TrueValue),
                       Prop("off", FalseValue),
                       Prop("nil", NullValue),
                       Prop("n", NumberValue("1")),
                       Prop("variant", StringValue("red")),
                       Prop("flag", StringValue("true"))>>, "preserve")))

\* An entry whose own property `renameFlow` is undefined.
UndefinedRegistry == "Later" :> RuleUndefined

\* Inline elements, paragraphs, fragments and unmatched elements inside a
\* scope.
KindsRegistry ==
  "Scope" :> RuleWith("para" :> Target("Note", FALSE, <<>>, "undefined"))

\* A target (br) that is a source tag of the rename map it stands in.
StepRegistry ==
  "Scope" :> RuleWith(
     ("para" :> Target("br", TRUE, <<Prop("step", NumberValue("1"))>>,
                       "undefined")) @@
     ("br" :> Target("Done", TRUE, <<Prop("step", NumberValue("2"))>>,
                     "undefined")))

\* Rename maps that form a cycle (a->b, b->a), and a target that is the
\* name of the scope the rule stands in.
CycleRegistry ==
  "Scope" :> RuleWith(
     ("a" :> Target("b", FALSE, <<>>, "undefined")) @@
     ("b" :> Target("a", FALSE, <<>>, "undefined")))

LoopRegistry ==
  "Scope" :> RuleWith("para" :> Target("Scope", FALSE, <<>>, "undefined"))

\* No entry at all, and no entry that declares `renameFlow`.
EmptyRegistry == <<>>
UndeclaredRegistry == "Plain" :> RuleWithout

Cases ==
  { [registry |-> EmptyRegistry, labels |-> {Flow("para")}],
    [registry |-> UndeclaredRegistry,
     labels |-> {Flow("Plain"), Flow("para")}],
    [registry |-> NestedRegistry,
     labels |-> {Flow("Outer"), Flow("Inner"), Flow("para")}],
    [registry |-> ChainRegistry,
     labels |-> {Flow("Outer"), Flow("para"), Flow("br")}],
    [registry |-> PlainRegistry,
     labels |-> {Flow("Outer"), Flow("Plain"), Flow("para")}],
    [registry |-> SelfRegistry,
     labels |-> {Flow("Self"), Flow("Empty"), Flow("para")}],
    [registry |-> PolicyRegistry,
     labels |-> {Flow("Scope"), Flow("mark"), Flow("para")}],
    [registry |-> PropsRegistry,
     labels |-> {Flow("Scope"), Flow("para"), Flow("br")}],
    [registry |-> UndefinedRegistry,
     labels |-> {Flow("Later"), Flow("para")}],
    [registry |-> KindsRegistry,
     labels |-> {Flow("Scope"), Flow("para"), Inline("para")}],
    [registry |-> KindsRegistry,
     labels |-> {Flow("Scope"), Flow("para"), Paragraph}],
    [registry |-> KindsRegistry,
     labels |-> {Flow("Scope"), Flow("para"), Fragment}],
    [registry |-> KindsRegistry,
     labels |-> {Flow("Scope"), Flow("para"), Flow("div")}] }

(***************************************************************************)
(* Trees.                                                                  *)
(***************************************************************************)
RECURSIVE AncestorsIn(_, _)
\* The proper ancestors of node n under the parent function p.
AncestorsIn(p, n) == IF n = 0 THEN {} ELSE {p[n]} \cup AncestorsIn(p, p[n])

\* Parent functions whose node numbers are in document (pre-)order: the
\* parent of node i is node i-1 or one of the ancestors of node i-1.
Shapes ==
  { p \in [Elements -> 0 .. (MaxNodes - 1)] :
      \A i \in Elements :
        /\ p[i] < i
        /\ i > 1 => p[i] \in {i - 1} \cup AncestorsIn(p, i - 1) }

RECURSIVE SortedSeq(_)
\* The members of a set of nodes as an increasing sequence.
SortedSeq(S) ==
  IF S = {} THEN <<>>
  ELSE LET m == CHOOSE x \in S : \A y \in S : x <= y
       IN <<m>> \o SortedSeq(S \ {m})

ChildrenIn(p, n) == SortedSeq({i \in Elements : p[i] = n})

\* The attribute every JSX element of an input tree carries.
OriginalAttribute ==
  [type |-> "mdxJsxAttribute", name |-> "id",
   value |-> [type |-> "literal", value |-> "orig", estree |-> NullValue]]

IsJsx(t) == t \in {"mdxJsxFlowElement", "mdxJsxTextElement"}

VARIABLES
  registry,     \* the ScopedMdxTransformRegistry the plugin was created with
  input,        \* the tree as handed to the transformer (never changes)
  name,         \* node -> current tag name
  attributes,   \* node -> current attribute list
  children,     \* node -> current children list
  pc,           \* "outer", "inner", "done" or "thrown"
  outerTodo,    \* outer visit: nodes still to be visited, head first
  innerTodo,    \* inner visit: nodes still to be visited, head first
  scopeElement, \* the scope root of the running inner visit, or NoNode
  error,        \* name of the prop in the thrown error's message, or NoName
  tested,       \* history: what the outer test saw, in order
  roots,        \* history: the scope roots the outer visitor was called for
  renames,      \* history: the calls of applyFlowRename, in order
  run,          \* number of this call of the transformer, the tree as it was
                \* when the call started, and how the earlier calls ended
  adapter       \* the running call of a registry-adapter function

vars == <<registry, input, name, attributes, children, pc, outerTodo,
          innerTodo, scopeElement, error, tested, roots, renames, run,
          adapter>>

\* No registry-adapter function is running.
NoAdapterCall == [op |-> "none"]

\* The tree as it is now.
Snapshot(nm, at, ch) == [name |-> nm, attributes |-> at, children |-> ch]

\* How a call of the transformer ended: the tree it left, whether it
\* returned or threw, and what it threw.
Outcome ==
  [tree |-> Snapshot(name, attributes, children), pc |-> pc, error |-> error]

Type(n) == input.type[n]

\* The input tree as the parser hands it over.
ParsedInput ==
  Snapshot(input.name,
           [n \in Nodes |-> IF IsJsx(Type(n)) THEN <<OriginalAttribute>>
                            ELSE <<>>],
           input.children)
Parent(n) == input.parent[n]
Ancestors(n) == AncestorsIn(input.parent, n)

InitCase(c) ==
  \E p \in Shapes : \E lab \in [Elements -> c.labels] :
    LET ty == [n \in Nodes |-> IF n = 0 THEN "root" ELSE lab[n].type]
        nm == [n \in Nodes |-> IF n = 0 THEN NoName ELSE lab[n].name]
        ch == [n \in Nodes |-> ChildrenIn(p, n)]
        at == [n \in Nodes |-> IF IsJsx(ty[n]) THEN <<OriginalAttribute>>
                               ELSE <<>>]
    IN /\ registry = c.registry
       /\ input = [parent |-> p, type |-> ty, name |-> nm, children |-> ch]
       /\ name = nm
       /\ attributes = at
       /\ children = ch
       /\ run = [pass |-> 1, start |-> Snapshot(nm, at, ch), earlier |-> <<>>]
       /\ adapter = NoAdapterCall
       /\ pc = "outer"
       /\ outerTodo = <<0>>
       /\ innerTodo = <<>>
       /\ scopeElement = NoNode
       /\ error = NoName
       /\ tested = <<>>
       /\ roots = <<>>
       /\ renames = <<>>

Init == \E c \in Cases : InitCase(c)

(***************************************************************************)
(* Attribute encoding: createAttributeValueExpression, toMdxAttribute,     *)
(* buildAttributes.                                                        *)
(***************************************************************************)
\* valueToEstree(value) returns an expression for plain data and throws for
\* a value it cannot represent (here: a function).
CanEncode(value) ==
  value.type \in {"boolean", "null", "string", "number", "undefined"}

\* The attribute value built from a prop value that can be encoded.
createAttributeValueExpression(value) ==
  [type |-> "mdxJsxAttributeValueExpression", value |-> "", estree |-> value]

\* `value: null` of a boolean attribute that is present.
PresenceValue == [type |-> "null", value |-> "", estree |-> NullValue]

\* Variant: a value that cannot be serialized is emitted all the same.
toMdxAttributeThrows_Never(propValue) == FALSE

\* toMdxAttribute throws for this prop value.
toMdxAttributeThrows(propValue) ==
  propValue # TrueValue /\ ~CanEncode(propValue)

\* Variant: no case 1, `true` is encoded as an expression like the rest.
toMdxAttribute_NoFastPath(propName, propValue) ==
  [type |-> "mdxJsxAttribute", name |-> propName,
   value |-> createAttributeValueExpression(propValue)]

\* Case 1: `true` is attribute presence; case 2: an expression.
toMdxAttribute(propName, propValue) ==
  IF propValue = TrueValue
  THEN [type |-> "mdxJsxAttribute", name |-> propName, value |-> PresenceValue]
  ELSE [type |-> "mdxJsxAttribute", name |-> propName,
        value |-> createAttributeValueExpression(propValue)]

\* Variant: `undefined` entries are not skipped.
EmittedProps_All(props) == props

\* The entries buildAttributes does not skip.
EmittedProps(props) ==
  SelectSeq(props, LAMBDA e : e.value # UndefinedValue)

RECURSIVE FirstThrowing(_)
\* The name of the first emitted prop whose encoding throws, or NoName.
FirstThrowing(props) ==
  IF props = <<>> THEN NoName
  ELSE IF toMdxAttributeThrows(Head(props).value) THEN Head(props).name
  ELSE FirstThrowing(Tail(props))

\* buildAttributes(component.props) throws, naming this prop (or NoName).
buildAttributesError(component) ==
  IF ~component.hasProps THEN NoName
  ELSE FirstThrowing(EmittedProps(component.props))

\* The list buildAttributes(component.props) returns when nothing throws.
buildAttributes(component) ==
  IF ~component.hasProps THEN <<>>
  ELSE LET emitted == EmittedProps(component.props)
       IN [i \in 1 .. Len(emitted) |->
             toMdxAttribute(emitted[i].name, emitted[i].value)]

(***************************************************************************)
(* Predicates and sets of the two walks.                                   *)
(***************************************************************************)
\* Variant: any named JSX element, inline ones included.
isNamedMdxJsxFlowElement_AnyJsx(n) == IsJsx(Type(n)) /\ name[n] # NoName

\* The type guard: an mdxJsxFlowElement whose name is not null.
isNamedMdxJsxFlowElement(n) ==
  Type(n) = "mdxJsxFlowElement" /\ name[n] # NoName

\* Variant: a truthiness test in place of Object.hasOwn, so that an empty
\* rename map does not count as declared.
activeScopeNames_Truthy ==
  {k \in DOMAIN registry :
     registry[k].defined /\ DOMAIN registry[k].renameFlow # {}}

\* shouldProcessScope: names of the registry entries that declare
\* `renameFlow` as an own property.
activeScopeNames == {k \in DOMAIN registry : registry[k].declared}

\* Variant: every registry key opens a scope.
shouldProcessScope_AnyKey(n) ==
  isNamedMdxJsxFlowElement(n) /\ name[n] \in DOMAIN registry

\* The `test` of the outer visit.
shouldProcessScope(n) ==
  isNamedMdxJsxFlowElement(n) /\ name[n] \in activeScopeNames

\* Variant: only the declared scopes are boundaries.
scopeComponentNames_Declared == activeScopeNames

\* remarkScopedMdx: new Set(Object.keys(registry)), the boundary names.
scopeComponentNames == DOMAIN registry

\* createScopeVisitor step 1: `!renameFlow` for the rule of this scope.
NoRenameFlow(scope) ==
  \/ name[scope] \notin DOMAIN registry
  \/ ~registry[name[scope]].defined

\* The rename map the inner visit of this scope root works with.
renameFlow(scope) == registry[name[scope]].renameFlow

\* Variant: the rename lookup comes before the root and boundary checks.
VisitorStep_LookupFirst(scope, element) ==
  IF name[element] \in DOMAIN renameFlow(scope) THEN "rename"
  ELSE IF element = scope THEN "root"
  ELSE IF name[element] \in scopeComponentNames THEN "SKIP"
  ELSE "none"

\* What the inner visitor does with a named flow element, in the order of
\* its checks: "root" (step 2a), "SKIP" (step 3), "none" or "rename"
\* (step 4).
VisitorStep(scope, element) ==
  IF element = scope THEN "root"
  ELSE IF name[element] \in scopeComponentNames THEN "SKIP"
  ELSE IF name[element] \notin DOMAIN renameFlow(scope) THEN "none"
  ELSE "rename"

\* Variant: the inner visit walks the whole tree.
InnerVisitStart_Tree(scope) == <<0>>

\* The node the inner visit starts from: visit(scopeElement, ...).
InnerVisitStart(scope) == <<scope>>

\* Variant: the outer visitor returns SKIP.
OuterAfterVisitor_Skip(scope) == <<>>

\* The outer visitor returns nothing, so the outer visit goes on into the
\* children of the scope root once the visitor has returned.
OuterAfterVisitor(scope) == children[scope]

\* Variant: the children policy is ignored and children are always kept.
ChildrenAfterRename_Keep(element, target) == children[element]

\* Variant: children are cleared unless the policy is "preserve".
ChildrenAfterRename_Unless(element, target) ==
  IF target.childrenPolicy = "preserve" THEN children[element] ELSE <<>>

\* Variant: the children that are kept come back in reverse order.
ChildrenAfterRename_Reversed(element, target) ==
  IF target.childrenPolicy = "clear" THEN <<>>
  ELSE [i \in 1 .. Len(children[element]) |->
          children[element][Len(children[element]) + 1 - i]]

\* applyFlowRename: the children of the element after the rename.
ChildrenAfterRename(element, target) ==
  IF target.childrenPolicy = "clear" THEN <<>> ELSE children[element]

\* Variant: the inner visit does not go below a node it has renamed.
InnerAfterRename_Skip(element, target) == <<>>

\* Variant: the inner visit comes back to the node it has renamed.
InnerAfterRename_Again(element, target) == <<element>>

\* The inner visitor returns nothing after applyFlowRename, so the inner
\* visit goes on into the children the renamed element has then.
InnerAfterRename(element, target) == ChildrenAfterRename(element, target)

(***************************************************************************)
(* The outer visit: visit(tree, shouldProcessScope(registry), visitor).    *)
(***************************************************************************)
TestRecord(n, matched) ==
  [node |-> n, type |-> Type(n), name |-> name[n], matched |-> matched]

RootRecord(n) ==
  [node |-> n, name |-> name[n], names |-> name, kids |-> children]

\* The test fails for the next node: the visit goes on with its children.
OuterDescend ==
  /\ pc = "outer" /\ outerTodo # <<>>
  /\ LET n == Head(outerTodo) IN
       /\ ~shouldProcessScope(n)
       /\ outerTodo' = children[n] \o Tail(outerTodo)
       /\ tested' = Append(tested, TestRecord(n, FALSE))
  /\ UNCHANGED <<registry, input, run, adapter,
                 name, attributes, children, pc, innerTodo,
                 scopeElement, error, roots, renames>>

\* The test holds and the visitor starts the inner visit of the scope root.
ScopeVisitorEnter ==
  /\ pc = "outer" /\ outerTodo # <<>>
  /\ LET n == Head(outerTodo) IN
       /\ shouldProcessScope(n)
       /\ ~NoRenameFlow(n)
       /\ pc' = "inner"
       /\ scopeElement' = n
       /\ innerTodo' = InnerVisitStart(n)
       /\ tested' = Append(tested, TestRecord(n, TRUE))
       /\ roots' = Append(roots, RootRecord(n))
  /\ UNCHANGED <<registry, input, run, adapter,
                 name, attributes, children, outerTodo,
                 error, renames>>

\* The test holds but `renameFlow` is undefined: the visitor returns at once
\* and the outer visit goes on with the children.
ScopeVisitorNoRenameFlow ==
  /\ pc = "outer" /\ outerTodo # <<>>
  /\ LET n == Head(outerTodo) IN
       /\ shouldProcessScope(n)
       /\ NoRenameFlow(n)
       /\ outerTodo' = OuterAfterVisitor(n) \o Tail(outerTodo)
       /\ tested' = Append(tested, TestRecord(n, TRUE))
       /\ roots' = Append(roots, RootRecord(n))
  /\ UNCHANGED <<registry, input, run, adapter,
                 name, attributes, children, pc, innerTodo,
                 scopeElement, error, renames>>

\* The inner visit is over: the visitor returns and the outer visit goes on
\* below the scope root.
ScopeVisitorReturn ==
  /\ pc = "inner" /\ innerTodo = <<>>
  /\ pc' = "outer"
  /\ outerTodo' = OuterAfterVisitor(scopeElement) \o Tail(outerTodo)
  /\ scopeElement' = NoNode
  /\ UNCHANGED <<registry, input, run, adapter,
                 name, attributes, children, innerTodo,
                 error, tested, roots, renames>>

\* The outer visit has no node left: the transformer returns.
TransformerReturn ==
  /\ pc = "outer" /\ outerTodo = <<>>
  /\ pc' = "done"
  /\ UNCHANGED <<registry, input, run, adapter,
                 name, attributes, children, outerTodo,
                 innerTodo, scopeElement, error, tested, roots, renames>>

(***************************************************************************)
(* The inner visit: visit(scopeElement, isNamedMdxJsxFlowElement, ...).    *)
(***************************************************************************)
RenameRecord(element, target, ok) ==
  [node |-> element, scope |-> scopeElement, scopeName |-> name[scopeElement],
   from |-> name[element], to |-> target.component.name,
   policy |-> target.childrenPolicy, ok |-> ok, before |-> children[element]]

\* The next node is not a named flow element: no visitor call.
InnerNotNamedFlow ==
  /\ pc = "inner" /\ innerTodo # <<>>
  /\ LET e == Head(innerTodo) IN
       /\ ~isNamedMdxJsxFlowElement(e)
       /\ innerTodo' = children[e] \o Tail(innerTodo)
  /\ UNCHANGED <<registry, input, run, adapter,
                 name, attributes, children, pc, outerTodo,
                 scopeElement, error, tested, roots, renames>>

\* Step 2a: the scope root itself.
InnerSkipRoot ==
  /\ pc = "inner" /\ innerTodo # <<>>
  /\ LET e == Head(innerTodo) IN
       /\ isNamedMdxJsxFlowElement(e)
       /\ VisitorStep(scopeElement, e) = "root"
       /\ innerTodo' = children[e] \o Tail(innerTodo)
  /\ UNCHANGED <<registry, input, run, adapter,
                 name, attributes, children, pc, outerTodo,
                 scopeElement, error, tested, roots, renames>>

\* Step 3: a boundary; the visitor returns SKIP.
InnerBoundary ==
  /\ pc = "inner" /\ innerTodo # <<>>
  /\ LET e == Head(innerTodo) IN
       /\ isNamedMdxJsxFlowElement(e)
       /\ VisitorStep(scopeElement, e) = "SKIP"
       /\ innerTodo' = Tail(innerTodo)
  /\ UNCHANGED <<registry, input, run, adapter,
                 name, attributes, children, pc, outerTodo,
                 scopeElement, error, tested, roots, renames>>

\* Step 4: no rename target for this tag name.
InnerNoTarget ==
  /\ pc = "inner" /\ innerTodo # <<>>
  /\ LET e == Head(innerTodo) IN
       /\ isNamedMdxJsxFlowElement(e)
       /\ VisitorStep(scopeElement, e) = "none"
       /\ innerTodo' = children[e] \o Tail(innerTodo)
  /\ UNCHANGED <<registry, input, run, adapter,
                 name, attributes, children, pc, outerTodo,
                 scopeElement, error, tested, roots, renames>>

\* Variant: a rename uses its rule up; the scope's rename map loses the tag.
RegistryAfterRename_Consume(scope, element) ==
  LET map == renameFlow(scope)
  IN [registry EXCEPT ![name[scope]] =
        RuleWith([k \in DOMAIN map \ {name[element]} |-> map[k]])]

\* The registry after applyFlowRename: the target is read, nothing of the
\* registry is assigned.
RegistryAfterRename(scope, element) == registry

\* Step 4: applyFlowRename(element, renameTarget) returns.
InnerRename ==
  /\ pc = "inner" /\ innerTodo # <<>>
  /\ LET e == Head(innerTodo) IN
       /\ isNamedMdxJsxFlowElement(e)
       /\ VisitorStep(scopeElement, e) = "rename"
       /\ LET target == renameFlow(scopeElement)[name[e]] IN
            /\ buildAttributesError(target.component) = NoName
            /\ name' = [name EXCEPT ![e] = target.component.name]
            /\ attributes' =
                 [attributes EXCEPT ![e] = buildAttributes(target.component)]
            /\ children' =
                 [children EXCEPT ![e] = ChildrenAfterRename(e, target)]
            /\ innerTodo' = InnerAfterRename(e, target) \o Tail(innerTodo)
            /\ renames' = Append(renames, RenameRecord(e, target, TRUE))
            /\ registry' = RegistryAfterRename(scopeElement, e)
  /\ UNCHANGED <<input, run, adapter,
                 pc, outerTodo, scopeElement, error, tested,
                 roots>>

\* Variant: the tree is put back as it was when the transformer was called.
TreeAfterThrow_Rollback(element, target) == run.start

\* Variant: the rename is atomic, the failing element is left as it was.
TreeAfterThrow_Atomic(element, target) == Snapshot(name, attributes, children)

\* applyFlowRename when buildAttributes throws: the assignment of the name
\* has been made, those of the attributes and the children are not reached,
\* and nothing else is written on the way out.
TreeAfterThrow(element, target) ==
  Snapshot([name EXCEPT ![element] = target.component.name],
           attributes, children)

\* Step 4: applyFlowRename sets the name, then buildAttributes throws; the
\* error leaves both visits and the transformer.
InnerRenameThrows ==
  /\ pc = "inner" /\ innerTodo # <<>>
  /\ LET e == Head(innerTodo) IN
       /\ isNamedMdxJsxFlowElement(e)
       /\ VisitorStep(scopeElement, e) = "rename"
       /\ LET target == renameFlow(scopeElement)[name[e]] IN
            /\ buildAttributesError(target.component) # NoName
            /\ name' = TreeAfterThrow(e, target).name
            /\ attributes' = TreeAfterThrow(e, target).attributes
            /\ children' = TreeAfterThrow(e, target).children
            /\ error' = buildAttributesError(target.component)
            /\ pc' = "thrown"
            /\ renames' = Append(renames, RenameRecord(e, target, FALSE))
  /\ UNCHANGED <<registry, input, run, adapter, outerTodo, innerTodo,
                 scopeElement, tested, roots>>

Next ==
  \/ OuterDescend
  \/ ScopeVisitorEnter
  \/ ScopeVisitorNoRenameFlow
  \/ ScopeVisitorReturn
  \/ TransformerReturn
  \/ InnerNotNamedFlow
  \/ InnerSkipRoot
  \/ InnerBoundary
  \/ InnerNoTarget
  \/ InnerRename
  \/ InnerRenameThrows

Spec == Init /\ [][Next]_vars

(***************************************************************************)
(* The transformer called a second time on the tree it has rewritten,      *)
(* with the same registry.                                                 *)
(***************************************************************************)
TwiceCases ==
  { [registry |-> StepRegistry,
     labels |-> {Flow("Scope"), Flow("para"), Flow("br")}],
    [registry |-> NestedRegistry,
     labels |-> {Flow("Outer"), Flow("Inner"), Flow("para")}],
    [registry |-> ChainRegistry,
     labels |-> {Flow("Outer"), Flow("para"), Flow("br")}],
    [registry |-> PropsRegistry, labels |-> {Flow("Scope"), Flow("para")}],
    [registry |-> UndefinedRegistry, labels |-> {Flow("Later"), Flow("para")}],
    [registry |-> KindsRegistry, labels |-> {Flow("Scope"), Inline("para")}] }

InitTwice == \E c \in TwiceCases : InitCase(c)

\* The first call has returned; the transformer is called again on the same
\* tree object: a new outer visit starts at the root.
TransformAgain ==
  /\ pc = "done" /\ run.pass = 1
  /\ run' = [pass |-> 2, start |-> Snapshot(name, attributes, children),
             earlier |-> Append(run.earlier, Outcome)]
  /\ pc' = "outer"
  /\ outerTodo' = <<0>>
  /\ tested' = <<>>
  /\ roots' = <<>>
  /\ renames' = <<>>
  /\ UNCHANGED <<registry, input, adapter, name, attributes, children,
                 innerTodo, scopeElement, error>>

NextTwice ==
  \/ OuterDescend
  \/ ScopeVisitorEnter
  \/ ScopeVisitorNoRenameFlow
  \/ ScopeVisitorReturn
  \/ TransformerReturn
  \/ InnerNotNamedFlow
  \/ InnerSkipRoot
  \/ InnerBoundary
  \/ InnerNoTarget
  \/ InnerRename
  \/ InnerRenameThrows
  \/ TransformAgain

SpecTwice == InitTwice /\ [][NextTwice]_vars

(***************************************************************************)
(* One plugin instance, called for one tree after another: the transformer *)
(* returned by remarkScopedMdx(registry) is called again, with the tree it  *)
(* has rewritten or with a newly parsed copy of the input tree.            *)
(***************************************************************************)
MaxCalls == 3

SeriesCases ==
  { [registry |-> StepRegistry,
     labels |-> {Flow("Scope"), Flow("para"), Flow("br")}],
    [registry |-> NestedRegistry, labels |-> {Flow("Outer"), Flow("Inner")}],
    [registry |-> PropsRegistry, labels |-> {Flow("Scope"), Flow("para")}],
    [registry |-> UndefinedRegistry, labels |-> {Flow("Later"), Flow("para")}],
    [registry |-> KindsRegistry, labels |-> {Flow("Scope"), Inline("para")}] }

InitSeries == \E c \in SeriesCases : InitCase(c)

\* A call has returned or thrown; the transformer is called with a newly
\* parsed copy of the input tree.  Each call has its own visit() frames.
TransformNext ==
  /\ pc \in {"done", "thrown"} /\ run.pass < MaxCalls
  /\ run' = [pass |-> run.pass + 1, start |-> ParsedInput,
             earlier |-> Append(run.earlier, Outcome)]
  /\ name' = ParsedInput.name
  /\ attributes' = ParsedInput.attributes
  /\ children' = ParsedInput.children
  /\ pc' = "outer"
  /\ outerTodo' = <<0>>
  /\ innerTodo' = <<>>
  /\ scopeElement' = NoNode
  /\ error' = NoName
  /\ tested' = <<>>
  /\ roots' = <<>>
  /\ renames' = <<>>
  /\ UNCHANGED <<registry, input, adapter>>

NextSeries ==
  \/ OuterDescend
  \/ ScopeVisitorEnter
  \/ ScopeVisitorNoRenameFlow
  \/ ScopeVisitorReturn
  \/ TransformerReturn
  \/ InnerNotNamedFlow
  \/ InnerSkipRoot
  \/ InnerBoundary
  \/ InnerNoTarget
  \/ InnerRename
  \/ InnerRenameThrows
  \/ TransformAgain
  \/ TransformNext

SpecSeries == InitSeries /\ [][NextSeries]_vars

(***************************************************************************)
(* The transformer as a call that runs on: visit() is synchronous, so once *)
(* the transformer is called each step that can be taken is taken.         *)
(***************************************************************************)
LiveCases ==
  { [registry |-> CycleRegistry,
     labels |-> {Flow("Scope"), Flow("a"), Flow("b")}],
    [registry |-> LoopRegistry, labels |-> {Flow("Scope"), Flow("para")}],
    [registry |-> ChainRegistry, labels |-> {Flow("Outer"), Flow("para")}],
    [registry |-> PropsRegistry, labels |-> {Flow("Scope"), Flow("para")}],
    [registry |-> UndefinedRegistry, labels |-> {Flow("Later"), Flow("para")}],
    [registry |-> KindsRegistry, labels |-> {Flow("Scope"), Inline("para")}],
    [registry |-> KindsRegistry, labels |-> {Flow("Scope"), Flow("div")}] }

InitLive == \E c \in LiveCases : InitCase(c)

SpecLive == InitLive /\ [][Next]_vars /\ WF_vars(Next)

(***************************************************************************)
(* The registry adapter: deriveMdxTransformRegistry and                    *)
(* expandHydratedComponentNames over a component-definition registry.      *)
(***************************************************************************)
\* A component definition with an `mdxTransform` rule, and one without.
Definition(rule) == [hasTransform |-> TRUE, mdxTransform |-> rule]
DefinitionWithout == [hasTransform |-> FALSE, mdxTransform |-> RuleWithout]

\* The definitions from which this scoped registry is derived, with plain
\* components (no `mdxTransform`) under the names in `plain`.
DefinitionsOf(scoped, plain) ==
  [k \in DOMAIN scoped \cup plain |->
     IF k \in DOMAIN scoped THEN Definition(scoped[k]) ELSE DefinitionWithout]

RECURSIVE DeriveEntries(_, _, _)
\* The loop of deriveMdxTransformRegistry over the entries still to come:
\* `if (rule) registry[componentName] = rule`.
DeriveEntries(entries, componentDefinitions, derived) ==
  IF entries = {} THEN derived
  ELSE LET componentName == CHOOSE k \in entries : TRUE
           componentDefinition == componentDefinitions[componentName]
       IN DeriveEntries(entries \ {componentName}, componentDefinitions,
            IF componentDefinition.hasTransform
            THEN derived @@ (componentName :> componentDefinition.mdxTransform)
            ELSE derived)

\* Variant: every definition gets a key, with or without `mdxTransform`.
deriveMdxTransformRegistry_All(componentDefinitions) ==
  [k \in DOMAIN componentDefinitions |-> componentDefinitions[k].mdxTransform]

\* The registry starts empty and the loop runs over Object.entries.
deriveMdxTransformRegistry(componentDefinitions) ==
  DeriveEntries(DOMAIN componentDefinitions, componentDefinitions, <<>>)

\* `expanded` after addRenameFlowTargets(expanded, rule.renameFlow).
addRenameFlowTargets(expanded, rule) ==
  IF ~rule.defined THEN expanded
  ELSE expanded \cup
         {rule.renameFlow[s].component.name : s \in DOMAIN rule.renameFlow}

RECURSIVE ExpandNames(_, _, _)
\* The loop of expandHydratedComponentNames over the input names still to
\* come; names without a definition or without a rule are passed over.
ExpandNames(names, componentDefinitions, expanded) ==
  IF names = {} THEN expanded
  ELSE LET componentName == CHOOSE k \in names : TRUE
           rest == names \ {componentName}
       IN IF componentName \notin DOMAIN componentDefinitions
          THEN ExpandNames(rest, componentDefinitions, expanded)
          ELSE IF ~componentDefinitions[componentName].hasTransform
          THEN ExpandNames(rest, componentDefinitions, expanded)
          ELSE ExpandNames(rest, componentDefinitions,
                 addRenameFlowTargets(expanded,
                   componentDefinitions[componentName].mdxTransform))

\* Variant: the loop runs once more, over the names the first loop added,
\* so that the targets of a target are added as well.
expandHydratedComponentNames_Twice(componentNames, componentDefinitions) ==
  LET once == ExpandNames(componentNames, componentDefinitions, componentNames)
  IN ExpandNames(once, componentDefinitions, once)

\* `expanded` starts as a copy of the input set: new Set(componentNames).
expandHydratedComponentNames(componentNames, componentDefinitions) ==
  ExpandNames(componentNames, componentDefinitions, componentNames)

\* Definition registries and the names the discovered set is drawn from.
AdapterCases ==
  { [definitions |-> DefinitionsOf(ChainRegistry, {"para", "B"}),
     names |-> {"Outer", "Inner", "para", "br", "B"}],
    [definitions |-> DefinitionsOf(NestedRegistry, {"A", "para"}),
     names |-> {"Outer", "Inner", "para", "A", "div"}],
    [definitions |-> DefinitionsOf(PlainRegistry, {"A"}),
     names |-> {"Outer", "Plain", "para", "A"}],
    [definitions |-> DefinitionsOf(UndefinedRegistry, {"para"}),
     names |-> {"Later", "para", "div"}],
    [definitions |-> DefinitionsOf(SelfRegistry, {}),
     names |-> {"Self", "Empty", "para", "A"}],
    [definitions |-> DefinitionsOf(EmptyRegistry, {"para"}),
     names |-> {"para", "div"}] }

\* A call of an adapter function: its arguments as the caller holds them,
\* as they were given, and the value returned.
AdapterCall(op, componentNames, componentDefinitions, result) ==
  [op |-> op, componentNames |-> componentNames,
   componentDefinitions |-> componentDefinitions,
   given |-> [componentNames |-> componentNames,
              componentDefinitions |-> componentDefinitions],
   result |-> result]

\* The remark transformer is not called: no tree is walked.
EngineIdle ==
  /\ registry = EmptyRegistry
  /\ input = [parent |-> [n \in Nodes |-> 0],
              type |-> [n \in Nodes |-> IF n = 0 THEN "root" ELSE "paragraph"],
              name |-> [n \in Nodes |-> NoName],
              children |-> [n \in Nodes |-> IF n = 0 THEN SortedSeq(Elements)
                                            ELSE <<>>]]
  /\ name = input.name
  /\ attributes = [n \in Nodes |-> <<>>]
  /\ children = input.children
  /\ run = [pass |-> 0, start |-> Snapshot(name, attributes, children),
            earlier |-> <<>>]
  /\ pc = "idle"
  /\ outerTodo = <<>>
  /\ innerTodo = <<>>
  /\ scopeElement = NoNode
  /\ error = NoName
  /\ tested = <<>>
  /\ roots = <<>>
  /\ renames = <<>>

InitAdapter ==
  /\ \E c \in AdapterCases : \E names \in SUBSET c.names :
       adapter = AdapterCall("ready", names, c.definitions, {})
  /\ EngineIdle

\* deriveMdxTransformRegistry(componentDefinitions) is called and returns.
CallDerive ==
  /\ adapter.op = "ready"
  /\ adapter' =
       [adapter EXCEPT
          !.op = "derive",
          !.result = deriveMdxTransformRegistry(adapter.componentDefinitions)]
  /\ UNCHANGED <<registry, input, run, name, attributes, children, pc,
                 outerTodo, innerTodo, scopeElement, error, tested, roots,
                 renames>>

\* expandHydratedComponentNames(componentNames, componentDefinitions) is
\* called and returns.
CallExpand ==
  /\ adapter.op = "ready"
  /\ adapter' =
       [adapter EXCEPT
          !.op = "expand",
          !.result = expandHydratedComponentNames(adapter.componentNames,
                       adapter.componentDefinitions)]
  /\ UNCHANGED <<registry, input, run, name, attributes, children, pc,
                 outerTodo, innerTodo, scopeElement, error, tested, roots,
                 renames>>

NextAdapter ==
  \/ CallDerive
  \/ CallExpand

SpecAdapter == InitAdapter /\ [][NextAdapter]_vars

(***************************************************************************)
(* Authoring: defineComponents(registry, buildTransforms).  Objects live   *)
(* in a heap, a sequence indexed by reference, so that "the same object"   *)
(* and "a new object" can be told apart.                                   *)
(***************************************************************************)
\* A registry entry made by defineEntry, and a registry object.
Entry(component, definition) ==
  [kind |-> "entry", component |-> component,
   hasTransform |-> definition.hasTransform,
   mdxTransform |-> definition.mdxTransform]

RegistryObject(entries) == [kind |-> "registry", entries |-> entries]

\* `{...undefined}`: what the spread of a missing entry gives.
NoEntry == Entry(NoName, DefinitionWithout)

\* An entry of the map buildTransforms returns: a rule, or undefined.
TransformOf(key, rule) == [key |-> key, hasRule |-> TRUE, rule |-> rule]
TransformUndefined(key) == [key |-> key, hasRule |-> FALSE, rule |-> RuleWithout]

\* Input heaps: the registry is object 1, its entries follow in key order.
DefineCases ==
  { [keys |-> <<"Outer", "Inner", "Note">>,
     heap |-> <<RegistryObject(("Outer" :> 2) @@ ("Inner" :> 3) @@ ("Note" :> 4)),
                Entry("OuterImpl", DefinitionWithout),
                Entry("InnerImpl", DefinitionWithout),
                Entry("NoteImpl", DefinitionWithout)>>],
    [keys |-> <<"Scope", "Note">>,
     heap |-> <<RegistryObject(("Scope" :> 2) @@ ("Note" :> 3)),
                Entry("ScopeImpl", Definition(KindsRegistry["Scope"])),
                Entry("NoteImpl", DefinitionWithout)>>],
    [keys |-> <<>>, heap |-> <<RegistryObject(<<>>)>>] }

\* The rules a builder attaches: one with a rename map, one without.
BuiltRules == {NestedRegistry["Outer"], RuleWithout}

\* What the builder returns for one key: nothing, undefined, or a rule.
BuilderChoices ==
  {[kind |-> "absent", rule |-> RuleWithout],
   [kind |-> "undefined", rule |-> RuleWithout]} \cup
  {[kind |-> "rule", rule |-> r] : r \in BuiltRules}

\* The transform map of these choices, in the order of the keys.
TransformMapOf(keys, choice) ==
  LET present == SelectSeq(keys, LAMBDA k : choice[k].kind # "absent")
  IN [i \in DOMAIN present |->
        IF choice[present[i]].kind = "rule"
        THEN TransformOf(present[i], choice[present[i]].rule)
        ELSE TransformUndefined(present[i])]

\* Variant: no clone, the loop writes into the registry it was given.
CloneRegistry_Alias(heap, ref) == [heap |-> heap, ref |-> ref]

\* `{ ...registry }`: a new registry object with the same entry references.
CloneRegistry(heap, ref) ==
  [heap |-> Append(heap, RegistryObject(heap[ref].entries)),
   ref |-> Len(heap) + 1]

\* registryWithTransforms[componentKey] =
\*   { ...registryWithTransforms[componentKey], mdxTransform: rule }
AttachRule(heap, ref, componentKey, rule) ==
  LET old == IF componentKey \in DOMAIN heap[ref].entries
             THEN heap[heap[ref].entries[componentKey]] ELSE NoEntry
      new == [old EXCEPT !.hasTransform = TRUE, !.mdxTransform = rule]
      at == Len(heap) + 1
  IN [i \in 1 .. at |->
        IF i = at THEN new
        ELSE IF i = ref
        THEN RegistryObject((componentKey :> at) @@ heap[ref].entries)
        ELSE heap[i]]

RECURSIVE AttachRules(_, _, _)
\* The loop over stringKeysOf(transformMap); `if (!rule) continue`.
AttachRules(heap, ref, transformMap) ==
  IF transformMap = <<>> THEN heap
  ELSE LET t == Head(transformMap)
       IN AttachRules(IF t.hasRule THEN AttachRule(heap, ref, t.key, t.rule)
                      ELSE heap,
                      ref, Tail(transformMap))

\* The heap and the reference returned by defineComponents.
defineComponents(heap, ref, hasBuilder, transformMap) ==
  IF ~hasBuilder THEN [heap |-> heap, ref |-> ref]
  ELSE LET clone == CloneRegistry(heap, ref)
       IN [heap |-> AttachRules(clone.heap, clone.ref, transformMap),
           ref |-> clone.ref]

\* A call of defineComponents: registry reference, builder and its map,
\* the heap now and as it was given, and the reference returned.
InitDefine ==
  /\ \E c \in DefineCases : \E hasBuilder \in BOOLEAN :
       \E choice \in [{c.keys[i] : i \in DOMAIN c.keys} -> BuilderChoices] :
         /\ hasBuilder \/ \A k \in DOMAIN choice : choice[k].kind = "absent"
         /\ adapter =
              [op |-> "ready", registry |-> 1, hasBuilder |-> hasBuilder,
               transformMap |-> TransformMapOf(c.keys, choice),
               heap |-> c.heap, given |-> c.heap, result |-> 0]
  /\ EngineIdle

\* defineComponents(registry[, buildTransforms]) is called and returns.
CallDefineComponents ==
  /\ adapter.op = "ready"
  /\ LET out == defineComponents(adapter.heap, adapter.registry,
                                 adapter.hasBuilder, adapter.transformMap)
     IN adapter' = [adapter EXCEPT !.op = "defineComponents",
                                   !.heap = out.heap, !.result = out.ref]
  /\ UNCHANGED <<registry, input, run, name, attributes, children, pc,
                 outerTodo, innerTodo, scopeElement, error, tested, roots,
                 renames>>

NextDefine == CallDefineComponents

SpecDefine == InitDefine /\ [][NextDefine]_vars

(***************************************************************************)
(* Runtime loader: createLoaderUtils(resolveEntry).  An object is the      *)
(* sequence of its (id, value) properties in insertion order.              *)
(***************************************************************************)
\* A registry entry: a component, with or without a lazy loader.
LoaderEntry(component, loader) == [component |-> component, loader |-> loader]

\* What reading a property the object does not have yields.
NoLoaderEntry == LoaderEntry("", FALSE)

Property(id, value) == [id |-> id, value |-> value]

\* Runtime registries handed to createComponentSet.
LoaderRegistries ==
  { <<Property("Scope", LoaderEntry("ScopeView", FALSE)),
      Property("Note", LoaderEntry("NoteView", TRUE)),
      Property("Card", LoaderEntry("CardView", FALSE))>>,
    <<Property("Card", LoaderEntry("CardView", TRUE)),
      Property("Scope", LoaderEntry("ScopeView", FALSE))>>,
    <<>> }

\* The names an allowed set is drawn from.
LoaderNames == {"Scope", "Note", "Card", "para", "br"}

\* Object.keys(obj).
stringKeysOf(obj) == [i \in DOMAIN obj |-> obj[i].id]

\* obj[id].
GetProperty(obj, id) ==
  IF \E i \in DOMAIN obj : obj[i].id = id
  THEN obj[CHOOSE i \in DOMAIN obj : obj[i].id = id].value
  ELSE NoLoaderEntry

\* obj[id] = value.
SetProperty(obj, id, value) ==
  IF \E i \in DOMAIN obj : obj[i].id = id
  THEN [i \in DOMAIN obj |-> IF obj[i].id = id THEN Property(id, value)
                             ELSE obj[i]]
  ELSE Append(obj, Property(id, value))

\* The bound resolver: a lazy wrapper for an entry with a loader, the
\* component itself otherwise.
resolveEntry(entry) ==
  IF entry.loader THEN [kind |-> "dynamic", of |-> entry.component]
  ELSE [kind |-> "static", of |-> entry.component]

createComponentSet(loaderRegistry) ==
  [registry |-> loaderRegistry, keys |-> stringKeysOf(loaderRegistry)]

filterAllowedIds_All(ids, allowed) == ids

\* ids.filter(id => allowed.has(id)).
filterAllowedIds(ids, allowed) ==
  LET Has(id) == id \in allowed IN SelectSeq(ids, Has)

\* The loop of getLoadableComponents over componentIds, from the map built so
\* far and the entries the resolver has been called with.
RECURSIVE ResolveIds(_, _, _, _)
ResolveIds(components, componentIds, resolved, calls) ==
  IF componentIds = <<>> THEN [resolved |-> resolved, calls |-> calls]
  ELSE LET id == Head(componentIds)
           entry == GetProperty(components, id)
       IN IF entry = NoLoaderEntry
          THEN ResolveIds(components, Tail(componentIds), resolved, calls)
          ELSE ResolveIds(components, Tail(componentIds),
                          SetProperty(resolved, id, resolveEntry(entry)),
                          Append(calls, entry))

getLoadableComponents(components, componentIds) ==
  ResolveIds(components, componentIds, <<>>, <<>>)

getLoadableComponentsFromSet(preparedSet, allowed) ==
  LET included == filterAllowedIds(preparedSet.keys, allowed)
  IN getLoadableComponents(preparedSet.registry, included)

\* The loader utilities are bound; a registry and an allowed set are at hand.
InitLoader ==
  /\ \E r \in LoaderRegistries, allowed \in SUBSET LoaderNames :
       adapter = [op |-> "bound", registry |-> r,
                  preparedSet |-> createComponentSet(<<>>),
                  allowed |-> allowed, resolved |-> <<>>, calls |-> <<>>]
  /\ EngineIdle

\* createComponentSet(registry) is called and returns.
CallCreateComponentSet ==
  /\ adapter.op = "bound"
  /\ adapter' = [adapter EXCEPT !.op = "createComponentSet",
                   !.preparedSet = createComponentSet(adapter.registry)]
  /\ UNCHANGED <<registry, input, run, name, attributes, children, pc,
                 outerTodo, innerTodo, scopeElement, error, tested, roots,
                 renames>>

\* getLoadableComponentsFromSet(preparedSet, allowed) is called and returns.
CallGetLoadableComponentsFromSet ==
  /\ adapter.op = "createComponentSet"
  /\ LET out == getLoadableComponentsFromSet(adapter.preparedSet,
                                             adapter.allowed)
     IN adapter' = [adapter EXCEPT !.op = "getLoadableComponentsFromSet",
                      !.resolved = out.resolved, !.calls = out.calls]
  /\ UNCHANGED <<registry, input, run, name, attributes, children, pc,
                 outerTodo, innerTodo, scopeElement, error, tested, roots,
                 renames>>

NextLoader == CallCreateComponentSet \/ CallGetLoadableComponentsFromSet

SpecLoader == InitLoader /\ [][NextLoader]_vars

(***************************************************************************)
(* Vocabulary of the properties.                                           *)
(***************************************************************************)
Range(f) == {f[i] : i \in DOMAIN f}

\* Node d lies below node a in the input tree.
Below(a, d) == a \in Ancestors(d)

\* The nodes on the path from a down to d, both excluded.
Between(a, d) == {m \in Ancestors(d) : Below(a, m)}

\* Node n can be reached from the root through the children lists `kids`.
AttachedIn(kids, n) ==
  \A x \in (Ancestors(n) \cup {n}) \ {0} : x \in Range(kids[Parent(x)])

\* The registry keys whose rename map has a rule for tag name t.
ScopesWith(t) ==
  {k \in DOMAIN registry : t \in DOMAIN registry[k].renameFlow}

IsFlow(n) == Type(n) = "mdxJsxFlowElement"

\* This step leaves node n as it is.
NodeUnchanged(n) ==
  /\ name'[n] = name[n]
  /\ attributes'[n] = attributes[n]
  /\ children'[n] = children[n]

\* The calls of applyFlowRename on node n so far.
RenamesOf(n) == {i \in DOMAIN renames : renames[i].node = n}

(***************************************************************************)
(* C1  Scope exclusivity: when tag name T has a rename rule in the rename  *)
(* map of scope S only, no step mutates a flow element named T that has no *)
(* S-named flow element above it: its name, attributes and children stay.  *)
(***************************************************************************)
C1_ScopeExclusivity ==
  [][\A n \in Elements : \A S \in DOMAIN registry :
       ( /\ IsFlow(n)
         /\ ScopesWith(name[n]) = {S}
         /\ ~\E a \in Ancestors(n) : IsFlow(a) /\ name[a] = S )
       => NodeUnchanged(n)]_vars

\* The transformation is over, a T element inside S was renamed, and a T
\* element outside every S still has its input name and attributes.
C1_Witness ==
  /\ pc = "done"
  /\ \E i \in DOMAIN renames : \E m \in Elements :
       /\ renames[i].ok
       /\ ScopesWith(renames[i].from) = {renames[i].scopeName}
       /\ IsFlow(m)
       /\ input.name[m] = renames[i].from
       /\ ~\E a \in Ancestors(m) : name[a] = renames[i].scopeName
       /\ name[m] = input.name[m]
       /\ attributes[m] = <<OriginalAttribute>>

(***************************************************************************)
(* C2  Nested boundary: a flow element S2 of the input tree whose tag name *)
(* is a registry key (with or without a declared rename map) and that lies *)
(* below scope root S is not renamed by S, and neither is any node below   *)
(* S2.                                                                     *)
(***************************************************************************)
C2_NestedBoundary ==
  \A i \in DOMAIN renames :
    \A s2 \in Between(renames[i].scope, renames[i].node) \cup {renames[i].node} :
      ~(IsFlow(s2) /\ input.name[s2] \in DOMAIN registry)

\* A scope root has renamed one node, and below it a registry key without a
\* declared rename map shields a node that carries a source tag of the root.
C2_Witness ==
  /\ pc = "done"
  /\ \E r \in Range(roots) : \E s2, d \in Elements :
       /\ Below(r.node, s2) /\ Below(s2, d)
       /\ IsFlow(s2) /\ input.name[s2] \in DOMAIN registry
       /\ ~registry[input.name[s2]].declared
       /\ IsFlow(d) /\ input.name[d] \in DOMAIN registry[r.name].renameFlow
       /\ input.name[d] \notin DOMAIN registry
       /\ name[d] = input.name[d]
       /\ \E i \in DOMAIN renames : renames[i].scope = r.node

(***************************************************************************)
(* C3  Rewrite completeness, as claimed: when the transformation returns,  *)
(* every named flow element below a scope root S (attached when S was      *)
(* discovered, not at or below a boundary, not below a node S rewrites     *)
(* with `clear`) whose tag name is a key of the rename map of S has the    *)
(* tag name and the attributes of the target.                              *)
(***************************************************************************)
\* Node m, as named when root r was discovered, is a boundary.
BoundaryFor(r, m) == IsFlow(m) /\ r.names[m] \in DOMAIN registry

\* Node m, as named when root r was discovered, is rewritten with `clear`
\* by the inner visit of r.
ClearedBy(r, m) ==
  /\ IsFlow(m)
  /\ r.names[m] \in DOMAIN registry[r.name].renameFlow
  /\ registry[r.name].renameFlow[r.names[m]].childrenPolicy = "clear"

\* Node n is one of the nodes the inner visit of root r has to rewrite.
Covered(r, n) ==
  /\ Below(r.node, n)
  /\ AttachedIn(r.kids, n)
  /\ IsFlow(n)
  /\ r.names[n] \in DOMAIN registry[r.name].renameFlow
  /\ \A m \in Between(r.node, n) \cup {n} : ~BoundaryFor(r, m)
  /\ \A m \in Between(r.node, n) : ~ClearedBy(r, m)

C3_RewriteCompleteness ==
  pc = "done" =>
    \A r \in Range(roots) : \A n \in Elements :
      Covered(r, n) =>
        LET target == registry[r.name].renameFlow[r.names[n]]
        IN /\ name[n] = target.component.name
           /\ attributes[n] = buildAttributes(target.component)

(***************************************************************************)
(* C4  Nearest-scope rule: when the transformation returns, every attached *)
(* flow element that carries an active scope name has been discovered as a *)
(* scope root, also inside another scope root; no rename crosses a nested  *)
(* active scope of the input tree; and in `Outer > (para1, Inner > para2)` *)
(* with Outer{para->A}, Inner{para->B} para1 ends as A and para2 as B.     *)
(***************************************************************************)
C4_NearestScope ==
  /\ pc = "done" =>
       \A n \in Elements :
         (AttachedIn(children, n) /\ shouldProcessScope(n))
           => \E r \in Range(roots) : r.node = n
  /\ \A i \in DOMAIN renames :
       \A m \in Between(renames[i].scope, renames[i].node) :
         ~(IsFlow(m) /\ input.name[m] \in activeScopeNames)
  /\ (pc = "done" /\ registry = NestedRegistry) =>
       \A o, p1, inner, p2 \in Elements :
         ( /\ input.name[o] = "Outer"
           /\ Parent(p1) = o /\ input.name[p1] = "para"
           /\ Parent(inner) = o /\ input.name[inner] = "Inner"
           /\ Parent(p2) = inner /\ input.name[p2] = "para" )
         => (name[o] = "Outer" /\ name[p1] = "A" /\
             name[inner] = "Inner" /\ name[p2] = "B")

\* The scenario itself: Outer > (para1, Inner > para2) has been transformed
\* and Inner was discovered as a scope root below the scope root Outer.
C4_Witness ==
  /\ pc = "done"
  /\ registry = NestedRegistry
  /\ \E o, p1, inner, p2 \in Elements :
       /\ input.name[o] = "Outer" /\ Parent(o) = 0
       /\ Parent(p1) = o /\ input.name[p1] = "para"
       /\ Parent(inner) = o /\ input.name[inner] = "Inner"
       /\ Parent(p2) = inner /\ input.name[p2] = "para"
       /\ \E r1, r2 \in Range(roots) : r1.node = o /\ r2.node = inner
       /\ \E i, j \in DOMAIN renames :
            /\ renames[i].node = p1 /\ renames[i].scope = o
            /\ renames[j].node = p2 /\ renames[j].scope = inner

(***************************************************************************)
(* C5  Self-exclusion: a scope root is never renamed by its own rename     *)
(* map, and every node discovered as a scope root keeps the tag name it    *)
(* had when it was discovered.                                             *)
(***************************************************************************)
C5_SelfExclusion ==
  /\ \A r \in Range(roots) : name[r.node] = r.name
  /\ \A i \in DOMAIN renames : renames[i].node # renames[i].scope

\* A scope root whose own tag name is a source tag of its rename map has
\* been walked to the end, and its inner visit renamed a node.
C5_Witness ==
  /\ pc = "done"
  /\ \E r \in Range(roots) :
       /\ r.name \in DOMAIN registry[r.name].renameFlow
       /\ \E i \in DOMAIN renames : renames[i].scope = r.node

(***************************************************************************)
(* C6  Presence-based scope discovery: the outer test holds for a node     *)
(* exactly when it is a named flow element whose tag name is a registry    *)
(* key with `renameFlow` as an own property; a root with an empty rename   *)
(* map renames nothing.                                                    *)
(***************************************************************************)
C6_PresenceBasedDiscovery ==
  /\ \A t \in Range(tested) :
       t.matched <=>
         ( /\ t.type = "mdxJsxFlowElement" /\ t.name # NoName
           /\ t.name \in DOMAIN registry
           /\ registry[t.name].declared )
  /\ \A i \in DOMAIN renames :
       DOMAIN registry[renames[i].scopeName].renameFlow # {}

\* An element whose entry has an explicitly empty rename map was taken as a
\* scope root, and the transformation returned.
C6_Witness ==
  /\ pc = "done"
  /\ \E r \in Range(roots) :
       /\ registry[r.name].defined
       /\ DOMAIN registry[r.name].renameFlow = {}
       /\ \E d \in Elements : Below(r.node, d) /\ name[d] = input.name[d]

(***************************************************************************)
(* C7  One active-scope set for both phases, as claimed: the names that    *)
(* stop the inner visit are the active scope names, so that below a scope  *)
(* root a registry key without a declared rename map is no boundary and    *)
(* the root's rules are applied to the matching nodes below that key.      *)
(***************************************************************************)
\* Covered, with the active scope names as the boundaries, for a node that
\* lies below a registry key without a declared rename map.
CoveredActive(r, n) ==
  /\ Below(r.node, n)
  /\ \E k \in Between(r.node, n) :
       /\ IsFlow(k) /\ r.names[k] \in DOMAIN registry
       /\ ~registry[r.names[k]].declared
  /\ AttachedIn(r.kids, n)
  /\ IsFlow(n)
  /\ r.names[n] \in DOMAIN registry[r.name].renameFlow
  /\ \A m \in Between(r.node, n) \cup {n} :
       ~(IsFlow(m) /\ r.names[m] \in activeScopeNames)
  /\ \A m \in Between(r.node, n) : ~ClearedBy(r, m)

C7_OneActiveScopeSet ==
  pc = "done" =>
    \A r \in Range(roots) : \A n \in Elements :
      CoveredActive(r, n) =>
        \E i \in DOMAIN renames :
          renames[i].node = n /\ renames[i].scope = r.node

(***************************************************************************)
(* C8  At most one mutation, as claimed: no flow element has a rename      *)
(* applied to it more than once during one run of the transformer.         *)
(***************************************************************************)
C8_MutatedAtMostOnce ==
  \A n \in Elements : Cardinality(RenamesOf(n)) <= 1

(***************************************************************************)
(* C9  Children policy clear: once a target with childrenPolicy `clear`    *)
(* has been applied to a node, the children list of the node is empty,     *)
(* whatever it was before, and it stays empty to the end.                  *)
(***************************************************************************)
C9_ChildrenPolicyClear ==
  \A i \in DOMAIN renames :
    (renames[i].ok /\ renames[i].policy = "clear")
      => children[renames[i].node] = <<>>

\* A node with two children was rewritten with `clear` and the
\* transformation returned.
C9_Witness ==
  /\ pc = "done"
  /\ \E i \in DOMAIN renames :
       /\ renames[i].ok /\ renames[i].policy = "clear"
       /\ Len(renames[i].before) = 2
       /\ children[renames[i].node] = <<>>

(***************************************************************************)
(* C10  Children policy preserve/default: a rename whose target has        *)
(* childrenPolicy `preserve` or none leaves the children list of the node  *)
(* as it was before the rename: the same nodes in the same order.          *)
(***************************************************************************)
C10_ChildrenPolicyPreserve ==
  [][\A n \in Elements :
       ( /\ renames' # renames
         /\ renames'[Len(renames')].node = n
         /\ renames'[Len(renames')].policy \in {"preserve", "undefined"} )
       => /\ children'[n] = children[n]
          /\ children'[n] = renames'[Len(renames')].before]_vars

\* Both forms were applied to nodes that have children: an explicit
\* `preserve` and a target without a policy; the children are still there.
C10_Witness ==
  \E i, j \in DOMAIN renames :
    /\ renames[i].ok /\ renames[i].policy = "preserve"
    /\ renames[j].ok /\ renames[j].policy = "undefined"
    /\ renames[i].before # <<>> /\ renames[j].before # <<>>
    /\ children[renames[i].node] = renames[i].before
    /\ children[renames[j].node] = renames[j].before

(***************************************************************************)
(* Vocabulary of the attribute claims.                                     *)
(***************************************************************************)
\* The rewrite target a call of applyFlowRename was given.
TargetOf(r) == registry[r.scopeName].renameFlow[r.from]

\* The declared entries of the attribute map of a target, in their order.
DeclaredProps(target) ==
  IF target.component.hasProps THEN target.component.props ELSE <<>>

\* This step is a call of applyFlowRename that returns.
Applies == renames' # renames /\ renames'[Len(renames')].ok

\* The call of applyFlowRename this step adds to the history.
Applied == renames'[Len(renames')]

(***************************************************************************)
(* C11  Attribute replacement: a rename that is applied replaces the whole *)
(* attribute list of the node: no earlier attribute stays (also when the   *)
(* target has no attribute map), and the new list has exactly one          *)
(* attribute per entry of the map whose value is not `undefined`, in the   *)
(* declared order of the map.                                              *)
(***************************************************************************)
C11_AttributeReplacement ==
  [][Applies =>
       LET props == DeclaredProps(TargetOf(Applied))
           kept == {a \in DOMAIN props : props[a].value # UndefinedValue}
           new == attributes'[Applied.node]
       IN /\ \A x \in Range(attributes[Applied.node]) : x \notin Range(new)
          /\ Len(new) = Cardinality(kept)
          /\ \A a \in kept : \E i \in DOMAIN new : new[i].name = props[a].name
          /\ \A i, j \in DOMAIN new :
               i < j => \E a, b \in kept :
                          /\ a < b
                          /\ props[a].name = new[i].name
                          /\ props[b].name = new[j].name]_vars

\* A target whose map starts with an `undefined` entry and goes on with
\* several others has been applied: the node carries the others, in order.
C11_Witness ==
  \E i \in DOMAIN renames :
    LET props == DeclaredProps(TargetOf(renames[i]))
        new == attributes[renames[i].node]
    IN /\ renames[i].ok
       /\ Len(props) > 2
       /\ props[1].value = UndefinedValue
       /\ Len(new) = Len(props) - 1
       /\ \A k \in DOMAIN new : new[k].name = props[k + 1].name

(***************************************************************************)
(* C12  Boolean fast path: in the attributes a rename writes, an entry     *)
(* whose value is exactly `true` becomes a presence-only attribute (value  *)
(* null, no expression), and an entry with any other value that is not     *)
(* `undefined` (`false`, `null`, a string, also the string "true", a       *)
(* number) becomes an expression attribute that carries that value.        *)
(***************************************************************************)
C12_BooleanFastPath ==
  [][Applies =>
       LET props == DeclaredProps(TargetOf(Applied))
           new == attributes'[Applied.node]
       IN \A a \in DOMAIN props : \A i \in DOMAIN new :
            new[i].name = props[a].name =>
              IF props[a].value = TrueValue
              THEN /\ new[i].value.type = "null"
                   /\ new[i].value.type # "mdxJsxAttributeValueExpression"
              ELSE /\ new[i].value.type = "mdxJsxAttributeValueExpression"
                   /\ new[i].value.estree = props[a].value]_vars

\* A node carries the attributes of a target with `true`, `false`, `null`,
\* a number and a string: one presence attribute, the others expressions.
C12_Witness ==
  \E i \in DOMAIN renames :
    LET new == attributes[renames[i].node]
        values == {p.value : p \in Range(DeclaredProps(TargetOf(renames[i])))}
    IN /\ renames[i].ok
       /\ {TrueValue, FalseValue, NullValue, StringValue("true")} \subseteq values
       /\ \E v \in values : v.type = "number"
       /\ Cardinality({k \in DOMAIN new : new[k].value.type = "null"}) = 1
       /\ \E k \in DOMAIN new :
            /\ new[k].value.type = "mdxJsxAttributeValueExpression"
            /\ new[k].value.estree = FalseValue

(***************************************************************************)
(* C13  Encoder failure surfaced: when a target is applied whose attribute *)
(* map has an entry that cannot be encoded, the transformation has ended   *)
(* with a thrown error that names that entry; that call is the last one,   *)
(* and the transformer has not returned and does not go on.                *)
(***************************************************************************)
\* The entries of the attribute map of a target that cannot be encoded.
Unencodable(target) ==
  {p \in Range(DeclaredProps(target)) :
     p.value.type \notin {"boolean", "null", "string", "number", "undefined"}}

C13_EncoderFailureSurfaced ==
  /\ \A i \in DOMAIN renames :
       Unencodable(TargetOf(renames[i])) # {} =>
         /\ pc = "thrown"
         /\ error \in {p.name : p \in Unencodable(TargetOf(renames[i]))}
         /\ i = Len(renames)
         /\ ~renames[i].ok
  /\ pc = "thrown" => ~ENABLED Next

\* A target with a function-valued entry was applied and the error that
\* names the entry left the transformer.
C13_Witness ==
  /\ pc = "thrown"
  /\ error = "handle"
  /\ renames # <<>>
  /\ \E p \in Unencodable(TargetOf(renames[Len(renames)])) :
       p.name = "handle" /\ p.value = FunctionValue

(***************************************************************************)
(* C14  Idempotence boundary, as claimed: when no target's tag name is a   *)
(* source tag of the rename map of another scope, a second run on the      *)
(* rewritten tree changes nothing.                                         *)
(***************************************************************************)
\* The tag names the rename map of registry entry k rewrites to.
TargetNames(k) ==
  {registry[k].renameFlow[s].component.name : s \in DOMAIN registry[k].renameFlow}

NoTargetIsSourceOfAnother ==
  \A k1, k2 \in DOMAIN registry :
    k1 # k2 => TargetNames(k1) \cap DOMAIN registry[k2].renameFlow = {}

SecondRunChangesNothing ==
  /\ Snapshot(name, attributes, children) = run.start
  /\ renames = <<>>
  /\ pc # "thrown"

C14_IdempotenceAsClaimed ==
  (run.pass = 2 /\ NoTargetIsSourceOfAnother) => SecondRunChangesNothing

(***************************************************************************)
(* C14  Idempotence boundary, amended: when no target's tag name is a      *)
(* source tag of any rename map of the registry, the map the target stands *)
(* in included, a second run on the tree a first run has rewritten and     *)
(* returned changes nothing: no name, attribute list or children list      *)
(* changes, no rename is applied and no error is thrown.                   *)
(***************************************************************************)
NoTargetIsSource ==
  \A k1, k2 \in DOMAIN registry :
    TargetNames(k1) \cap DOMAIN registry[k2].renameFlow = {}

C14_IdempotenceBoundary ==
  (run.pass = 2 /\ NoTargetIsSource) => SecondRunChangesNothing

\* The second run has returned for a tree in which the first run renamed
\* nodes below two nested scope roots, and it found both roots again.
C14_Witness ==
  /\ run.pass = 2 /\ pc = "done"
  /\ NoTargetIsSource
  /\ Len(roots) >= 2
  /\ \E n, m \in Elements :
       /\ n # m
       /\ run.start.name[n] # input.name[n]
       /\ run.start.name[m] # input.name[m]
       /\ run.start.name[n] # run.start.name[m]
  /\ Snapshot(name, attributes, children) = run.start

(***************************************************************************)
(* C15  Expansion covers the rewritten tree, as claimed: with the tag      *)
(* names of the input tree as componentNames and the definitions the       *)
(* registry is derived from, every tag name of a named flow element of the *)
(* tree the transformer returns is in expandHydratedComponentNames(        *)
(* componentNames, definitions).                                           *)
(***************************************************************************)
\* The tag names that occur in the input tree.
OriginalNames == {input.name[n] : n \in Elements} \ {NoName}

C15_ExpansionCoversTree ==
  pc = "done" =>
    \A n \in Elements :
      (AttachedIn(children, n) /\ isNamedMdxJsxFlowElement(n)) =>
        name[n] \in expandHydratedComponentNames(OriginalNames,
                      DefinitionsOf(registry, {}))

(***************************************************************************)
(* C16  expandHydratedComponentNames returns the input names together with *)
(* the target component names of the rename maps of those definitions      *)
(* whose name is an input name, and nothing else; names without a          *)
(* definition or without a rule add nothing; the input set and the         *)
(* definitions are as they were given.                                     *)
(***************************************************************************)
\* The rename targets declared under component name k, if any.
DeclaredTargets(defs, k) ==
  IF k \in DOMAIN defs /\ defs[k].hasTransform /\ defs[k].mdxTransform.defined
  THEN {t.component.name : t \in Range(defs[k].mdxTransform.renameFlow)}
  ELSE {}

C16_ExpandedNames ==
  adapter.op = "expand" =>
    /\ adapter.result =
         adapter.given.componentNames \cup
           UNION {DeclaredTargets(adapter.given.componentDefinitions, k) :
                    k \in adapter.given.componentNames}
    /\ adapter.componentNames = adapter.given.componentNames
    /\ adapter.componentDefinitions = adapter.given.componentDefinitions

\* The call returned for input names of all three kinds: one without a
\* definition, one with a definition without a rule, and one with a rename
\* map whose targets were added, one target being a name with a rename map
\* of its own whose targets are not in the result.
C16_Witness ==
  /\ adapter.op = "expand"
  /\ \E a, b, c \in adapter.componentNames :
       /\ a \notin DOMAIN adapter.componentDefinitions
       /\ b \in DOMAIN adapter.componentDefinitions
       /\ ~adapter.componentDefinitions[b].hasTransform
       /\ \E t \in DeclaredTargets(adapter.componentDefinitions, c) :
            /\ t \notin adapter.componentNames
            /\ t \in adapter.result
            /\ DeclaredTargets(adapter.componentDefinitions, t) # {}
            /\ ~(DeclaredTargets(adapter.componentDefinitions, t)
                   \subseteq adapter.result)

(***************************************************************************)
(* C17  deriveMdxTransformRegistry is a pure adapter: the registry it      *)
(* returns has a key for exactly the component names whose definition has  *)
(* an `mdxTransform` rule, each mapped to that rule; definitions without   *)
(* one are left out; the definitions are as they were given.               *)
(***************************************************************************)
C17_DerivedRegistry ==
  adapter.op = "derive" =>
    LET defs == adapter.given.componentDefinitions IN
      /\ DOMAIN adapter.result = {k \in DOMAIN defs : defs[k].hasTransform}
      /\ \A k \in DOMAIN adapter.result :
           adapter.result[k] = defs[k].mdxTransform
      /\ adapter.componentDefinitions = defs

\* The call returned for definitions of which some have a rule and some
\* have none: the registry has the former only.
C17_Witness ==
  /\ adapter.op = "derive"
  /\ DOMAIN adapter.result # {}
  /\ DOMAIN adapter.result # DOMAIN adapter.componentDefinitions
  /\ \E k \in DOMAIN adapter.result :
       DOMAIN adapter.result[k].renameFlow # {}

(***************************************************************************)
(* C18  Non-flow nodes are never mutated: the root, paragraphs, inline JSX *)
(* elements and flow elements without a name keep their name, attributes   *)
(* and children list, and no rename is ever applied to them.               *)
(***************************************************************************)
\* The attributes node n has in the input tree.
InputAttributes(n) == IF IsJsx(Type(n)) THEN <<OriginalAttribute>> ELSE <<>>

NamedFlowInInput(n) == IsFlow(n) /\ input.name[n] # NoName

C18_NonFlowNodesUntouched ==
  \A n \in Nodes :
    ~NamedFlowInInput(n) =>
      /\ name[n] = input.name[n]
      /\ attributes[n] = InputAttributes(n)
      /\ children[n] = input.children[n]
      /\ RenamesOf(n) = {}

\* Below a scope root a flow element was renamed, and an inline element of
\* the same source tag below the same root is as it was in the input.
C18_Witness ==
  /\ pc = "done"
  /\ \E i \in DOMAIN renames : \E m \in Elements :
       /\ renames[i].ok
       /\ Type(m) = "mdxJsxTextElement"
       /\ input.name[m] = renames[i].from
       /\ Below(renames[i].scope, m)
       /\ AttachedIn(children, m)
       /\ name[m] = input.name[m]
       /\ attributes[m] = <<OriginalAttribute>>

(***************************************************************************)
(* C19  Rename frame: a step changes no node but the one it renames; of    *)
(* that node it changes the name, the attributes and, only under           *)
(* childrenPolicy `clear`, the children, which then become empty.  No node *)
(* is inserted into a children list and no children list is reordered.     *)
(***************************************************************************)
C19_RenameFrame ==
  [][/\ \A n \in Nodes :
          NodeUnchanged(n) \/ (renames' # renames /\ Applied.node = n)
     /\ \A n \in Nodes :
          \/ children'[n] = children[n]
          \/ /\ children'[n] = <<>>
             /\ Applies /\ Applied.node = n /\ Applied.policy = "clear"
     /\ \A n \in Nodes : children'[n] \in {<<>>, input.children[n]}]_vars

\* A node with two children was renamed and kept both, in their order,
\* and its siblings and children are as they were.
C19_Witness ==
  \E i \in DOMAIN renames :
    LET n == renames[i].node IN
      /\ renames[i].ok
      /\ Len(input.children[n]) >= 2
      /\ children[n] = input.children[n]
      /\ name[n] # input.name[n]
      /\ \A m \in Range(children[n]) \cup Range(children[Parent(n)]) :
           m # n => name[m] = input.name[m]

(***************************************************************************)
(* C20  No scope, no change: when the registry is empty, or no entry       *)
(* declares a rename map, or no flow element of the tree carries the name  *)
(* of an entry that declares one, no scope root is discovered, nothing is  *)
(* renamed, no error is thrown, every node is as in the input, and the     *)
(* walk goes on until the transformer returns.                             *)
(***************************************************************************)
NoScopeInInput ==
  \/ DOMAIN registry = {}
  \/ \A k \in DOMAIN registry : ~registry[k].declared
  \/ \A n \in Elements :
       NamedFlowInInput(n) =>
         \/ input.name[n] \notin DOMAIN registry
         \/ ~registry[input.name[n]].declared

C20_NoScopeNoChange ==
  NoScopeInInput =>
    /\ pc \in {"outer", "done"}
    /\ error = NoName
    /\ roots = <<>> /\ renames = <<>>
    /\ \A t \in Range(tested) : ~t.matched
    /\ \A n \in Nodes :
         /\ name[n] = input.name[n]
         /\ attributes[n] = InputAttributes(n)
         /\ children[n] = input.children[n]
    /\ pc = "outer" => ENABLED Next

\* The transformer has returned for a tree that holds a registry key with
\* a flow element below it, under a registry without any rename map.
C20_Witness ==
  /\ pc = "done"
  /\ DOMAIN registry # {}
  /\ \A k \in DOMAIN registry : ~registry[k].declared
  /\ \E n, m \in Elements :
       /\ IsFlow(n) /\ name[n] \in DOMAIN registry
       /\ Parent(m) = n /\ IsFlow(m) /\ name[m] = "para"
  /\ Len(tested) = MaxNodes + 1

(***************************************************************************)
(* C21  The outer walk below a scope root, as claimed: once the outer walk *)
(* has matched a scope root, it tests no descendant of that root.          *)
(***************************************************************************)
C21_OuterStopsAtScopeRoot ==
  \A r \in Range(roots) : \A t \in Range(tested) : ~Below(r.node, t.node)

(***************************************************************************)
(* C21  The outer walk below a scope root, amended: once the outer walk    *)
(* has matched a scope root and the inner walk of that root has returned,  *)
(* the outer walk goes on into the children the root has then: when the    *)
(* transformer returns, every descendant of a matched scope root that is   *)
(* still attached has been tested by the outer walk, once, and after the   *)
(* root.                                                                   *)
(***************************************************************************)
\* The positions in the history of the outer tests at which node n stands.
TestsOf(n) == {i \in DOMAIN tested : tested[i].node = n}

C21_OuterDescendsBelowScopeRoot ==
  pc = "done" =>
    \A r \in Range(roots) : \A d \in Elements :
      (Below(r.node, d) /\ AttachedIn(children, d)) =>
        /\ Cardinality(TestsOf(d)) = 1
        /\ \A i \in TestsOf(d) : \A j \in TestsOf(r.node) : j < i

\* The transformer has returned; below a scope root that renamed a node the
\* outer walk tested a descendant and matched a nested scope root.
C21_Witness ==
  /\ pc = "done"
  /\ \E r1, r2 \in Range(roots) : \E d \in Elements :
       /\ Below(r1.node, r2.node)
       /\ Below(r1.node, d) /\ ~shouldProcessScope(d)
       /\ TestsOf(d) # {}
       /\ \E i \in DOMAIN renames : renames[i].scope = r1.node

(***************************************************************************)
(* C22  Termination: every call of the transformer comes to its end, by    *)
(* returning or by throwing, after finitely many node visits (each step    *)
(* lowers a bound on the steps that are left), also when rename maps form  *)
(* a cycle (a->b, b->a) or when a target is a scope name.                  *)
(***************************************************************************)
RECURSIVE InnerVisits(_)
\* The nodes an inner visit that has `todo` before it can still come to.
InnerVisits(todo) ==
  IF todo = <<>> THEN 0
  ELSE 1 + InnerVisits(children[Head(todo)]) + InnerVisits(Tail(todo))

RECURSIVE OuterVisits(_)
\* A bound on the steps of an outer visit that has `todo` before it: each
\* node is tested, and may be walked as a scope root and returned from.
OuterVisits(todo) ==
  IF todo = <<>> THEN 0
  ELSE 2 + InnerVisits(<<Head(todo)>>) + OuterVisits(children[Head(todo)])
         + OuterVisits(Tail(todo))

\* A bound on the steps the running call can still take.
StepsLeft ==
  IF pc \in {"done", "thrown"} THEN 0
  ELSE IF pc = "inner"
  THEN 2 + InnerVisits(innerTodo) + OuterVisits(children[scopeElement])
         + OuterVisits(Tail(outerTodo))
  ELSE 1 + OuterVisits(outerTodo)

C22_Termination ==
  /\ [][StepsLeft' < StepsLeft]_vars
  /\ <>(pc \in {"done", "thrown"})

\* The transformer has returned for a tree in which both rules of a cycle
\* were applied below one scope root, each node being renamed once.
C22_Witness ==
  /\ pc = "done"
  /\ \E i, j \in DOMAIN renames :
       /\ renames[i].scope = renames[j].scope
       /\ renames[i].to = renames[j].from
       /\ renames[j].to = renames[i].from
       /\ Below(renames[i].node, renames[j].node)
  /\ \A n \in Elements : Cardinality(RenamesOf(n)) <= 1

(***************************************************************************)
(* C26  Fail-fast without rollback: no step follows a failed encoding, so  *)
(* no node is mutated afterwards; and the failing step leaves every other  *)
(* node as it is, so that a node rewritten before the failure has the name *)
(* of its target, not its earlier attributes, and no children under        *)
(* `clear`: the tree is not restored.                                      *)
(***************************************************************************)
\* The last call of applyFlowRename on node n, as a set of at most one.
LastRenameOf(n) == {i \in RenamesOf(n) : \A j \in RenamesOf(n) : j <= i}

Fails == pc' = "thrown"

C26_FailFastNoRollback ==
  [][/\ pc # "thrown"
     /\ Fails =>
          \A n \in Nodes :
            n # Applied.node =>
              /\ NodeUnchanged(n)
              /\ \A i \in LastRenameOf(n) :
                   /\ name'[n] = renames[i].to
                   /\ OriginalAttribute \notin Range(attributes'[n])
                   /\ renames[i].policy = "clear" => children'[n] = <<>>]_vars

\* The encoding has failed at one node after another node was rewritten:
\* that node has the name and the attributes of its target.
C26_Witness ==
  /\ pc = "thrown"
  /\ \E i \in DOMAIN renames :
       /\ renames[i].ok
       /\ name[renames[i].node] = renames[i].to
       /\ name[renames[i].node] # input.name[renames[i].node]
       /\ attributes[renames[i].node] # <<OriginalAttribute>>
       /\ attributes[renames[i].node] # <<>>

(***************************************************************************)
(* C27  State of the failing node: the step in which the encoding fails    *)
(* for node N sets the tag name of N to that of the target and leaves the  *)
(* attribute list and the children of N as they were, also when the target *)
(* says `clear`.                                                           *)
(***************************************************************************)
C27_FailingNodeState ==
  [][Fails =>
       /\ ~Applied.ok
       /\ name'[Applied.node] = Applied.to
       /\ name'[Applied.node] = TargetOf(Applied).component.name
       /\ attributes'[Applied.node] = attributes[Applied.node]
       /\ children'[Applied.node] = children[Applied.node]
       /\ children'[Applied.node] = Applied.before]_vars

\* The encoding failed for a node with children under a `clear` target: the
\* node has the new name, its input attributes and its children.
C27_Witness ==
  /\ pc = "thrown"
  /\ renames # <<>>
  /\ LET r == renames[Len(renames)] IN
       /\ ~r.ok /\ r.policy = "clear"
       /\ r.before # <<>>
       /\ children[r.node] = r.before
       /\ name[r.node] = r.to /\ r.to # r.from
       /\ attributes[r.node] = <<OriginalAttribute>>

(***************************************************************************)
(* C28  Registry keys are never rename sources: no call of applyFlowRename *)
(* is made on an element whose tag name at that time is a key of the       *)
(* registry, with or without a declared rename map; a rule whose source    *)
(* tag is a registry key is never applied.                                 *)
(***************************************************************************)
C28_RegistryKeysNeverRenamed ==
  \A i \in DOMAIN renames : renames[i].from \notin DOMAIN registry

\* The transformer has returned; a scope root with a rule for a tag that is
\* a registry key has renamed a node, and an element with that tag right
\* below the root still has its name.
C28_Witness ==
  /\ pc = "done"
  /\ \E r \in Range(roots) : \E d \in Elements :
       /\ Parent(d) = r.node /\ IsFlow(d)
       /\ name[d] \in DOMAIN registry
       /\ name[d] \in DOMAIN registry[r.name].renameFlow
       /\ name[d] = input.name[d]
       /\ \E i \in DOMAIN renames : renames[i].scope = r.node

(***************************************************************************)
(* C29  Rename into a scope: a node that a rename gives an active scope    *)
(* name and that is still attached when the transformer returns has been   *)
(* discovered by the outer walk, in the same run and after that rename, as *)
(* a scope root under its new name; the rename map of that scope has then  *)
(* been applied to the descendants it covers, which the inner walk of the  *)
(* enclosing scope root had already passed.                                *)
(***************************************************************************)
\* The positions in the history of scope roots at which node n stands.
RootsOf(n) == {k \in DOMAIN roots : roots[k].node = n}

C29_RenameIntoScope ==
  pc = "done" =>
    \A i \in DOMAIN renames :
      LET n == renames[i].node IN
        ( /\ renames[i].ok
          /\ renames[i].to \in activeScopeNames
          /\ registry[renames[i].to].defined
          /\ AttachedIn(children, n) )
        => /\ \E k \in RootsOf(n) :
                /\ roots[k].name = renames[i].to
                /\ \A k0 \in RootsOf(renames[i].scope) : k0 < k
                /\ \A d \in Elements :
                     Covered(roots[k], d) =>
                       \E j \in DOMAIN renames :
                         /\ j > i
                         /\ renames[j].node = d
                         /\ renames[j].scope = n
                         /\ renames[j].from = roots[k].names[d]
           /\ \A j \in DOMAIN renames : renames[j].scope = n => j > i

\* A node was renamed to an active scope name, and as a scope root it has
\* renamed a descendant that the enclosing scope root had renamed before.
C29_Witness ==
  /\ pc = "done"
  /\ \E i, j, k \in DOMAIN renames :
       /\ i < j /\ j < k
       /\ renames[i].to \in activeScopeNames
       /\ renames[j].scope = renames[i].scope
       /\ renames[j].node = renames[k].node
       /\ renames[k].scope = renames[i].node
       /\ Below(renames[i].node, renames[k].node)

(***************************************************************************)
(* C24  defineComponents never mutates the registry it is given or its     *)
(* entries.  Without a builder it returns the same registry reference.     *)
(* With a builder it returns a new registry object in which exactly the    *)
(* keys with a rule in the transform map have a new entry, the original    *)
(* one with `mdxTransform` set to that rule, and every other key has the   *)
(* original entry object.                                                  *)
(***************************************************************************)
\* The keys for which the transform map holds a rule, and that rule.
RuledKeys(transformMap) ==
  {transformMap[i].key : i \in {j \in DOMAIN transformMap : transformMap[j].hasRule}}

RuleFor(transformMap, k) ==
  (CHOOSE t \in Range(transformMap) : t.key = k /\ t.hasRule).rule

C24_DefineComponentsFrame ==
  adapter.op = "defineComponents" =>
    LET given == adapter.given
        old == given[adapter.registry].entries
        ruled == RuledKeys(adapter.transformMap)
    IN /\ \A ref \in DOMAIN given : adapter.heap[ref] = given[ref]
       /\ ~adapter.hasBuilder =>
            adapter.result = adapter.registry /\ adapter.heap = given
       /\ adapter.hasBuilder =>
            LET new == adapter.heap[adapter.result].entries IN
              /\ adapter.result \notin DOMAIN given
              /\ DOMAIN new = DOMAIN old
              /\ \A k \in DOMAIN new \ ruled : new[k] = old[k]
              /\ \A k \in ruled :
                   /\ new[k] \notin DOMAIN given
                   /\ adapter.heap[new[k]].hasTransform
                   /\ adapter.heap[new[k]].mdxTransform =
                        RuleFor(adapter.transformMap, k)
                   /\ adapter.heap[new[k]].component = given[old[k]].component

\* A call with a builder has returned: one key got a rule in place of the
\* rule its entry had, one key was named with `undefined`, one was not
\* named; the first has a new entry, the others their original entry.
C24_Witness ==
  /\ adapter.op = "defineComponents"
  /\ adapter.hasBuilder
  /\ \E t \in Range(adapter.transformMap) : ~t.hasRule
  /\ LET old == adapter.given[adapter.registry].entries
         new == adapter.heap[adapter.result].entries
     IN \E k1, k2 \in DOMAIN old :
          /\ k1 \in RuledKeys(adapter.transformMap)
          /\ adapter.given[old[k1]].hasTransform
          /\ adapter.heap[new[k1]].mdxTransform # adapter.given[old[k1]].mdxTransform
          /\ k2 \notin RuledKeys(adapter.transformMap)
          /\ new[k2] = old[k2]

\* The ids of an object's properties.
KeysOf(obj) == {obj[i].id : i \in DOMAIN obj}

LoaderReturned == adapter.op = "getLoadableComponentsFromSet"

LaterCallEnded ==
  /\ pc \in {"done", "thrown"}
  /\ run.earlier # <<>>
  /\ run.start = ParsedInput

====
